---- MODULE Spec2Model ----
(***************************************************************************)
(* azure-storage: a command-line uploader/downloader for Azure Blob        *)
(* Storage (src/main.rs).  One run of the program is modelled as a state   *)
(* machine: configuration loading and merging, credential resolution,      *)
(* client construction, dispatch on the mode string and the selected       *)
(* handler with its single remote call and its local file access.          *)
(*                                                                         *)
(* Two runs are carried side by side: `run` and `twin`.  They are given    *)
(* the same command line except for --debug, and at every step they see    *)
(* the same environment (config file, environment variables, local file    *)
(* system, remote responses).                                              *)
(***************************************************************************)
EXTENDS Integers, Sequences, FiniteSets

VARIABLES run, twin

vars == <<run, twin>>

(***************************************************************************)
(* Option<T>: None is the empty sequence, Some(v) the one-element sequence *)
(***************************************************************************)
None == <<>>

Some(v) == <<v>>

IsSome(o) == Len(o) = 1

Opt(S) == {None} \cup {Some(v) : v \in S}

(***************************************************************************)
(* Bounds of the model                                                     *)
(***************************************************************************)
\* longest file / blob content, in bytes
MaxData == 1

Bytes == {0, 1}

Data == UNION {[1..n -> Bytes] : n \in 0..MaxData}

(***************************************************************************)
(* Paths.  A path string is a sequence of tokens: the separator "/" or a   *)
(* name ("." and ".." included); two names are always separated by a       *)
(* separator.  The empty sequence is the empty string.                     *)
(***************************************************************************)
SEP == "/"

ReportCsv == <<"/", "tmp", "/", "data", "/", "report.csv">>

\* values of --local / of the "local" field that the model tries
LocalPaths == { ReportCsv, <<"d">>, <<"d", "/">>, <<"/">>, <<"d", "/", "..">> }

\* values of --blob: a relative name and a name that starts with a separator
BlobNames == { <<"x.txt">>, <<"/", "x.txt">> }

ContainerNames == { "c" }

Modes == { "list", "get", "put", "append", "put-append", "delete", "bogus" }

RECURSIVE Names(_)
\* the tokens of p that are not separators, in order
Names(p) ==
    IF p = <<>> THEN <<>>
    ELSE IF Head(p) = SEP THEN Names(Tail(p))
    ELSE <<Head(p)>> \o Names(Tail(p))

RECURSIVE DropDots(_)
DropDots(ns) ==
    IF ns = <<>> THEN <<>>
    ELSE IF Head(ns) = "." THEN DropDots(Tail(ns))
    ELSE <<Head(ns)>> \o DropDots(Tail(ns))

HasRoot(p) == p # <<>> /\ Head(p) = SEP

\* Path::components() without the root: repeated separators and a trailing
\* separator are ignored, "." is skipped except at the start of a relative path
Components(p) ==
    LET ns == Names(p)
    IN  IF ns = <<>> THEN <<>>
        ELSE IF ~HasRoot(p) /\ Head(ns) = "." THEN <<".">> \o DropDots(Tail(ns))
        ELSE DropDots(ns)

\* file_name as the text after the last separator, without normalisation
file_name_last(p) ==
    IF p = <<>> THEN None ELSE Some(<<p[Len(p)]>>)

\* Path::file_name(): the last component when it is a normal name
file_name(p) ==
    LET c == Components(p)
    IN  IF c = <<>> THEN None
        ELSE IF c[Len(c)] \in {".", ".."} THEN None
        ELSE Some(<<c[Len(c)]>>)

\* PathBuf::join(): an absolute argument replaces the path; otherwise it is
\* appended, with a separator unless the path is empty or ends with one
join(p, b) ==
    IF HasRoot(b) THEN b
    ELSE IF p = <<>> \/ p[Len(p)] = SEP THEN p \o b
    ELSE p \o <<SEP>> \o b

(***************************************************************************)
(* md5::compute, abstracted to an injective digest of the byte sequence    *)
(***************************************************************************)
RECURSIVE md5_compute(_)
md5_compute(buffer) ==
    IF buffer = <<>> THEN 1
    ELSE md5_compute(SubSeq(buffer, 1, Len(buffer) - 1)) * 3 + buffer[Len(buffer)] + 1

(***************************************************************************)
(* Inputs of a run                                                         *)
(***************************************************************************)
\* the parsed command line (clap's ArgMatches); --config only names the file
Args ==
    [ mode : Modes,
      container : Opt(ContainerNames),
      blob : Opt(BlobNames),
      local : Opt(LocalPaths \cup {<<>>}),
      storage_account : Opt({"", "B"}),
      storage_master_key : Opt({"", "K"}),
      debug : BOOLEAN ]

\* struct Configs
Default == [ storage_account |-> "", storage_master_key |-> "", local |-> <<>> ]

\* What File::open(config) finds.  open: the file could be opened; json: its
\* text is well-formed JSON (an object); fields: the value of each key of
\* the object, None for a key the object does not have.
ConfigFiles ==
    { [ open |-> FALSE, json |-> FALSE,
        fields |-> [ storage_account |-> None, storage_master_key |-> None, local |-> None ] ],
      [ open |-> TRUE, json |-> FALSE,
        fields |-> [ storage_account |-> None, storage_master_key |-> None, local |-> None ] ] }
    \cup
    { [ open |-> TRUE, json |-> TRUE, fields |-> f ] :
        f \in [ storage_account : Opt({"", "A"}),
                storage_master_key : Opt({"", "KF"}),
                local : Opt({<<"d">>}) ] }

\* std::env::var(name): None when the variable is not set
EnvValues == Opt({"", "E"})

\* An entry of the local file system
FsEntries ==
    { [ kind |-> "absent", data |-> <<>> ], [ kind |-> "dir", data |-> <<>> ] }
    \cup { [ kind |-> "file", data |-> d ] : d \in Data }

\* The entries a path can have: the empty path names nothing, the root is a
\* directory, and a path that ends in a separator, "." or ".." is no file.
EntriesOf(p) ==
    IF p = <<>> THEN { e \in FsEntries : e.kind = "absent" }
    ELSE IF Components(p) = <<>> THEN { e \in FsEntries : e.kind = "dir" }
    ELSE IF p[Len(p)] \in {SEP, ".", ".."} THEN { e \in FsEntries : e.kind # "file" }
    ELSE FsEntries

\* The file systems over the paths ps that a run may meet.
FileSystems(ps) == { f \in [ps -> FsEntries] : \A p \in ps : f[p] \in EntriesOf(p) }

\* A response of the storage service: success (with the blob's content for a
\* download) or an error.
Responses == { [ ok |-> FALSE, data |-> <<>> ] } \cup { [ ok |-> TRUE, data |-> d ] : d \in Data }

(***************************************************************************)
(* State of a run                                                          *)
(***************************************************************************)
NewRun(a) ==
    [ args |-> a,
      pc |-> "open_config",
      file |-> None,            \* the config file as found (ghost)
      cfg |-> Default,
      env |-> [ STORAGE_ACCOUNT |-> None, STORAGE_MASTER_KEY |-> None ],
                                \* Some(v) once std::env::var returned v (ghost)
      account |-> None,
      master_key |-> None,
      storage_client |-> None,
      local |-> None,
      container |-> None,       \* handler locals
      blob |-> None,
      local_path |-> None,
      buffer |-> None,
      hash |-> None,
      res |-> None,
      fs0 |-> None,             \* the local file system as first met (ghost)
      fs |-> None,              \* the local file system now
      io |-> <<>>,              \* File::open / File::create calls made
      calls |-> <<>>,           \* requests executed against the service
      out |-> <<>>,             \* what was printed
      result |-> "running",     \* running | ok | err | panic
      error |-> "" ]

Fail(r, msg) == [ r EXCEPT !.pc = "done", !.result = "err", !.error = msg ]

Panic(r, msg) == [ r EXCEPT !.pc = "done", !.result = "panic", !.error = msg ]

println(r, what) == [ r EXCEPT !.out = Append(@, what) ]

\* debug_print that ignores its flag
debug_print_always(r, obj, debug) == println(r, obj)

\* fn debug_print
debug_print(r, obj, debug) == IF debug THEN println(r, obj) ELSE r

Done(r) == [ r EXCEPT !.pc = "done", !.result = "ok" ]

(***************************************************************************)
(* fn main                                                                 *)
(***************************************************************************)
\* serde_json::from_reader::<Configs>: the derived Deserialize has no
\* #[serde(default)], so a key the object lacks is a "missing field" error
from_reader(f) ==
    IF f.json /\ \A k \in DOMAIN f.fields : IsSome(f.fields[k])
    THEN Some([ storage_account |-> f.fields.storage_account[1],
                storage_master_key |-> f.fields.storage_master_key[1],
                local |-> f.fields.local[1] ])
    ELSE None

\* Read config parameters if exist
open_config(r, f) ==
    LET r1 == [ r EXCEPT !.file = Some(f) ]
    IN  IF ~f.open THEN [ r1 EXCEPT !.cfg = Default, !.pc = "overwrite" ]
        ELSE IF from_reader(f) = None THEN Fail(r1, "config parse error")
        ELSE [ r1 EXCEPT !.cfg = from_reader(f)[1], !.pc = "overwrite" ]

\* args.value_of(name).map(|v| field = v.into())
value_of_map(arg, field) == IF IsSome(arg) THEN arg[1] ELSE field

\* Overwrite config parameters by command line options
overwrite(r) ==
    [ r EXCEPT
        !.cfg = [ storage_account |-> value_of_map(r.args.storage_account, r.cfg.storage_account),
                  storage_master_key |-> value_of_map(r.args.storage_master_key, r.cfg.storage_master_key),
                  local |-> value_of_map(r.args.local, r.cfg.local) ],
        !.pc = "print_config" ]

\* debug print of cfg
print_config(r) ==
    [ (IF r.args.debug THEN println(r, "cfg") ELSE r) EXCEPT !.pc = "account" ]

\* account with the precedence reversed: the environment variable, when
\* set, wins over the config parameter
account_env_first(r, e) ==
    LET r1 == [ r EXCEPT !.env.STORAGE_ACCOUNT = Some(e) ]
    IN  IF e # None THEN [ r1 EXCEPT !.account = e, !.pc = "master_key" ]
        ELSE IF r.cfg.storage_account = "" THEN Panic(r1, "STORAGE_ACCOUNT is not defined")
        ELSE [ r1 EXCEPT !.account = Some(r.cfg.storage_account), !.pc = "master_key" ]

\* master_key with unwrap_or_default() in place of expect(): an unset
\* variable yields the empty key
master_key_or_default(r, e) ==
    IF r.cfg.storage_master_key = ""
    THEN [ r EXCEPT !.env.STORAGE_MASTER_KEY = Some(e),
                    !.master_key = IF e = None THEN Some("") ELSE e,
                    !.pc = "storage_client" ]
    ELSE [ r EXCEPT !.master_key = Some(r.cfg.storage_master_key), !.pc = "storage_client" ]

\* Get storage keys from environment variable if no config parameter
account(r, e) ==
    IF r.cfg.storage_account = ""
    THEN LET r1 == [ r EXCEPT !.env.STORAGE_ACCOUNT = Some(e) ]
         IN  IF e = None THEN Panic(r1, "STORAGE_ACCOUNT is not defined")
             ELSE [ r1 EXCEPT !.account = e, !.pc = "master_key" ]
    ELSE [ r EXCEPT !.account = Some(r.cfg.storage_account), !.pc = "master_key" ]

master_key(r, e) ==
    IF r.cfg.storage_master_key = ""
    THEN LET r1 == [ r EXCEPT !.env.STORAGE_MASTER_KEY = Some(e) ]
         IN  IF e = None THEN Panic(r1, "STORAGE_MASTER_KEY is not defined")
             ELSE [ r1 EXCEPT !.master_key = e, !.pc = "storage_client" ]
    ELSE [ r EXCEPT !.master_key = Some(r.cfg.storage_master_key), !.pc = "storage_client" ]

\* Create a storage client object; local is None for an empty cfg.local
new_access_key(r) ==
    [ r EXCEPT
        !.storage_client = Some([ account |-> r.account[1], key |-> r.master_key[1] ]),
        !.local = IF r.cfg.local # <<>> THEN Some(r.cfg.local) ELSE None,
        !.pc = "azure_storage" ]

(***************************************************************************)
(* fn azure_storage                                                        *)
(***************************************************************************)
\* A request to the service, executed once: the response resp comes back
execute(r, op, container, blob, body, hash, resp) ==
    [ r EXCEPT !.calls = Append(@, [ op |-> op, container |-> container, blob |-> blob,
                                     body |-> body, hash |-> hash, ok |-> resp.ok ]) ]

\* entry: debug print of the request and the client, then match mode
azure_storage(r) ==
    LET r1 == IF r.args.debug THEN println(println(r, "request"), "storage_client") ELSE r
        mode == r.args.mode
    IN  IF mode = "list" THEN [ r1 EXCEPT !.pc = "list" ]
        ELSE IF mode = "put-append" THEN [ r1 EXCEPT !.pc = "put_append" ]
        ELSE IF mode \in {"put", "append"} THEN [ r1 EXCEPT !.pc = "put" ]
        ELSE IF mode = "get" THEN [ r1 EXCEPT !.pc = "get" ]
        ELSE IF mode = "delete" THEN [ r1 EXCEPT !.pc = "delete" ]
        ELSE Fail(r1, "Invalid mode")

\* List remote objects: blobs of the container, or containers
list(r, resp) ==
    LET op == IF IsSome(r.args.container) THEN "list_blobs" ELSE "list_containers"
        r1 == execute(r, op, r.args.container, None, None, None, resp)
    IN  IF ~resp.ok THEN Fail(r1, "remote error")
        ELSE Done(debug_print(println(r1, "listing"), "res", r.args.debug))

\* check_remote_path without the check of the blob name
check_remote_path_container_only(r, next) ==
    IF r.args.container = None THEN Fail(r, "No container name specified")
    ELSE [ r EXCEPT !.container = r.args.container, !.blob = r.args.blob, !.pc = next ]

\* container and blob are required (put-append, delete)
check_remote_path(r, next) ==
    IF r.args.container = None THEN Fail(r, "No container name specified")
    ELSE IF r.args.blob = None THEN Fail(r, "No blob name specified")
    ELSE [ r EXCEPT !.container = r.args.container, !.blob = r.args.blob, !.pc = next ]

\* One request on the blob client, then debug_print of its result
blob_request(r, op, resp) ==
    LET r1 == execute(r, op, r.container, r.blob, None, None, resp)
    IN  IF ~resp.ok THEN Fail(r1, "remote error")
        ELSE Done(debug_print(r1, "res", r.args.debug))

\* Create a just new append blob to remote
put_append_check(r) == check_remote_path(r, "put_append_blob")

put_append_blob(r, resp) == blob_request(r, "put_append_blob", resp)

\* Delete a blob from remote
delete_check(r) == check_remote_path(r, "delete_blob")

delete_blob(r, resp) == blob_request(r, "delete", resp)

\* Put or append: check path; the local file name is the blob name if no
\* blob name is specified
put_check(r) ==
    IF r.local = None THEN Fail(r, "No local path specified")
    ELSE IF r.args.container = None THEN Fail(r, "No container name specified")
    ELSE LET blob == IF IsSome(r.args.blob) THEN r.args.blob ELSE file_name(r.local[1])
         IN  IF blob = None THEN Fail(r, "Cannot extract filename from local path")
             ELSE [ r EXCEPT !.local_path = r.local, !.container = r.args.container,
                             !.blob = blob, !.pc = "read_local" ]

\* read_local with the hash taken of the buffer before it is filled
read_local_hash_first(r, fs, denied) ==
    LET path == r.local_path[1]
        ok == fs[path].kind = "file" /\ ~denied
        r1 == [ r EXCEPT !.fs0 = Some(fs), !.fs = Some(fs),
                         !.io = Append(@, [ op |-> "open", path |-> path, ok |-> ok ]) ]
    IN  IF ~ok THEN Fail(r1, "io error")
        ELSE [ r1 EXCEPT !.buffer = Some(fs[path].data),
                         !.hash = Some(md5_compute(<<>>)),
                         !.pc = "upload" ]

\* Read data from file (File::open, read_to_end) and compute its hash.
\* fs: the file system found; denied: the open or the read is refused
read_local(r, fs, denied) ==
    LET path == r.local_path[1]
        ok == fs[path].kind = "file" /\ ~denied
        r1 == [ r EXCEPT !.fs0 = Some(fs), !.fs = Some(fs),
                         !.io = Append(@, [ op |-> "open", path |-> path, ok |-> ok ]) ]
    IN  IF ~ok THEN Fail(r1, "io error")
        ELSE [ r1 EXCEPT !.buffer = Some(fs[path].data),
                         !.hash = Some(md5_compute(fs[path].data)),
                         !.pc = "upload" ]

\* [put] Put to remote / [append] Append to remote blob
upload(r, resp) ==
    LET op == IF r.args.mode = "put" THEN "put_block_blob" ELSE "append_block"
        r1 == execute(r, op, r.container, r.blob, r.buffer, r.hash, resp)
    IN  IF ~resp.ok THEN Fail(r1, "remote error")
        ELSE Done(debug_print(r1, "res", r.args.debug))

\* get_check without the directory test: the blob name is always appended
get_check_always_join(r, fs) ==
    IF r.args.container = None THEN Fail(r, "No container name specified")
    ELSE IF r.args.blob = None THEN Fail(r, "No blob name specified")
    ELSE IF r.local = None THEN Fail(r, "No local path specified")
    ELSE LET v == r.local[1]
             path == join(v, r.args.blob[1])
             r1 == [ r EXCEPT !.fs0 = Some(fs), !.fs = Some(fs),
                              !.container = r.args.container, !.blob = r.args.blob,
                              !.local_path = Some(path), !.pc = "get_blob" ]
         IN  IF r.args.debug THEN println(r1, "local path (complemented)") ELSE r1

\* get_check that complements the path inside the debug branch only
get_check_debug_join(r, fs) ==
    IF r.args.container = None THEN Fail(r, "No container name specified")
    ELSE IF r.args.blob = None THEN Fail(r, "No blob name specified")
    ELSE IF r.local = None THEN Fail(r, "No local path specified")
    ELSE LET v == r.local[1]
             is_dir == fs[v].kind = "dir"
             path == IF is_dir /\ r.args.debug THEN join(v, r.args.blob[1]) ELSE v
             r1 == [ r EXCEPT !.fs0 = Some(fs), !.fs = Some(fs),
                              !.container = r.args.container, !.blob = r.args.blob,
                              !.local_path = Some(path), !.pc = "get_blob" ]
         IN  IF is_dir /\ r.args.debug THEN println(r1, "local path (complemented)") ELSE r1

\* Get: check remote path and local path; add the blob name as local
\* filename if local path is a directory.  fs: the file system found
get_check(r, fs) ==
    IF r.args.container = None THEN Fail(r, "No container name specified")
    ELSE IF r.args.blob = None THEN Fail(r, "No blob name specified")
    ELSE IF r.local = None THEN Fail(r, "No local path specified")
    ELSE LET v == r.local[1]
             is_dir == fs[v].kind = "dir"
             path == IF is_dir THEN join(v, r.args.blob[1]) ELSE v
             r1 == [ r EXCEPT !.fs0 = Some(fs), !.fs = Some(fs),
                              !.container = r.args.container, !.blob = r.args.blob,
                              !.local_path = Some(path), !.pc = "get_blob" ]
         IN  IF is_dir /\ r.args.debug THEN println(r1, "local path (complemented)") ELSE r1

\* get_blob that goes on to the local write whatever the response
get_blob_ignore_error(r, resp) ==
    [ execute(r, "get", r.container, r.blob, None, None, resp)
        EXCEPT !.res = Some(resp.data), !.pc = "write_local" ]

\* Get the remote file
get_blob(r, resp) ==
    LET r1 == execute(r, "get", r.container, r.blob, None, None, resp)
    IN  IF ~resp.ok THEN Fail(r1, "remote error")
        ELSE [ r1 EXCEPT !.res = Some(resp.data), !.pc = "write_local" ]

\* File::create(path) can succeed only on a path that names no directory
creatable(fs, path) ==
    fs[path].kind # "dir" /\ path[Len(path)] \notin {SEP, ".", ".."}

\* Write to a file: File::create truncates or creates, write_all writes.
\* w.create: the environment lets the file be created; w.written: the
\* number of bytes the device takes before it fails
write_local(r, w) ==
    LET path == r.local_path[1]
        fs == r.fs[1]
        data == r.res[1]
        created == w.create /\ creatable(fs, path)
        n == IF w.written < Len(data) THEN w.written ELSE Len(data)
        r1 == [ r EXCEPT !.io = Append(@, [ op |-> "create", path |-> path, ok |-> created ]) ]
        r2 == [ r1 EXCEPT !.fs = Some([ fs EXCEPT ![path] =
                              [ kind |-> "file", data |-> SubSeq(data, 1, n) ] ]) ]
    IN  IF ~created THEN Fail(r1, "io error")
        ELSE IF n < Len(data) THEN Fail(r2, "io error")
        ELSE Done(debug_print(r2, "res", r.args.debug))

WriteOutcomes == [ create : BOOLEAN, written : 0..MaxData ]

\* The paths a get meets: the local path and the local path joined with the blob
GetPaths(r) ==
    IF r.args.container = None \/ r.args.blob = None \/ r.local = None THEN {}
    ELSE { r.local[1], join(r.local[1], r.args.blob[1]) }

\* The file systems a get can find: nothing exists below a non-directory
GetFileSystems(r) ==
    { fs \in FileSystems(GetPaths(r)) :
        GetPaths(r) # {} =>
            LET v == r.local[1]
                j == join(v, r.args.blob[1])
            IN  (fs[v].kind # "dir" /\ j # v /\ ~HasRoot(r.args.blob[1])) => fs[j].kind = "absent" }

\* The paths a put or an append meets
PutPaths(r) == IF r.local_path = None THEN {} ELSE { r.local_path[1] }

(***************************************************************************)
(* Actions: one per step of the program.  The twin takes the same step on  *)
(* the same inputs.                                                        *)
(***************************************************************************)
At(r, pc) == r.pc = pc

Init ==
    \E a \in Args :
        /\ run = NewRun(a)
        /\ twin = NewRun([ a EXCEPT !.debug = ~a.debug ])

LoadConfig ==
    /\ At(run, "open_config")
    /\ \E f \in ConfigFiles :
        /\ run' = open_config(run, f)
        /\ twin' = IF At(twin, run.pc) THEN open_config(twin, f) ELSE twin

OverwriteByArgs ==
    /\ At(run, "overwrite")
    /\ run' = overwrite(run)
    /\ twin' = IF At(twin, run.pc) THEN overwrite(twin) ELSE twin

PrintConfig ==
    /\ At(run, "print_config")
    /\ run' = print_config(run)
    /\ twin' = IF At(twin, run.pc) THEN print_config(twin) ELSE twin

ResolveAccount ==
    /\ At(run, "account")
    /\ \E e \in EnvValues :
        /\ run' = account(run, e)
        /\ twin' = IF At(twin, run.pc) THEN account(twin, e) ELSE twin

ResolveMasterKey ==
    /\ At(run, "master_key")
    /\ \E e \in EnvValues :
        /\ run' = master_key(run, e)
        /\ twin' = IF At(twin, run.pc) THEN master_key(twin, e) ELSE twin

CreateClient ==
    /\ At(run, "storage_client")
    /\ run' = new_access_key(run)
    /\ twin' = IF At(twin, run.pc) THEN new_access_key(twin) ELSE twin

Dispatch ==
    /\ At(run, "azure_storage")
    /\ run' = azure_storage(run)
    /\ twin' = IF At(twin, run.pc) THEN azure_storage(twin) ELSE twin

List ==
    /\ At(run, "list")
    /\ \E resp \in Responses :
        /\ run' = list(run, resp)
        /\ twin' = IF At(twin, run.pc) THEN list(twin, resp) ELSE twin

PutAppendCheck ==
    /\ At(run, "put_append")
    /\ run' = put_append_check(run)
    /\ twin' = IF At(twin, run.pc) THEN put_append_check(twin) ELSE twin

PutAppendBlob ==
    /\ At(run, "put_append_blob")
    /\ \E resp \in Responses :
        /\ run' = put_append_blob(run, resp)
        /\ twin' = IF At(twin, run.pc) THEN put_append_blob(twin, resp) ELSE twin

PutCheck ==
    /\ At(run, "put")
    /\ run' = put_check(run)
    /\ twin' = IF At(twin, run.pc) THEN put_check(twin) ELSE twin

ReadLocal ==
    /\ At(run, "read_local")
    /\ \E fs \in FileSystems(PutPaths(run)), denied \in BOOLEAN :
        /\ run' = read_local(run, fs, denied)
        /\ twin' = IF At(twin, run.pc) /\ PutPaths(twin) = PutPaths(run)
                   THEN read_local(twin, fs, denied) ELSE twin

Upload ==
    /\ At(run, "upload")
    /\ \E resp \in Responses :
        /\ run' = upload(run, resp)
        /\ twin' = IF At(twin, run.pc) THEN upload(twin, resp) ELSE twin

GetCheck ==
    /\ At(run, "get")
    /\ \E fs \in GetFileSystems(run) :
        /\ run' = get_check(run, fs)
        /\ twin' = IF At(twin, run.pc) /\ GetPaths(twin) = GetPaths(run)
                   THEN get_check(twin, fs) ELSE twin

GetBlob ==
    /\ At(run, "get_blob")
    /\ \E resp \in Responses :
        /\ run' = get_blob(run, resp)
        /\ twin' = IF At(twin, run.pc) THEN get_blob(twin, resp) ELSE twin

WriteLocal ==
    /\ At(run, "write_local")
    /\ \E w \in WriteOutcomes :
        /\ run' = write_local(run, w)
        /\ twin' = IF At(twin, run.pc) /\ twin.local_path = run.local_path
                   THEN write_local(twin, w) ELSE twin

DeleteCheck ==
    /\ At(run, "delete")
    /\ run' = delete_check(run)
    /\ twin' = IF At(twin, run.pc) THEN delete_check(twin) ELSE twin

DeleteBlob ==
    /\ At(run, "delete_blob")
    /\ \E resp \in Responses :
        /\ run' = delete_blob(run, resp)
        /\ twin' = IF At(twin, run.pc) THEN delete_blob(twin, resp) ELSE twin

Next ==
    \/ LoadConfig
    \/ OverwriteByArgs
    \/ PrintConfig
    \/ ResolveAccount
    \/ ResolveMasterKey
    \/ CreateClient
    \/ Dispatch
    \/ List
    \/ PutAppendCheck
    \/ PutAppendBlob
    \/ PutCheck
    \/ ReadLocal
    \/ Upload
    \/ GetCheck
    \/ GetBlob
    \/ WriteLocal
    \/ DeleteCheck
    \/ DeleteBlob

Spec == Init /\ [][Next]_vars

(***************************************************************************)
(* Properties                                                              *)
(***************************************************************************)
Finished(r) == r.pc = "done"

Has(seq, x) == \E i \in DOMAIN seq : seq[i] = x

\* two path strings name the same path: same root, same components
SamePath(p, q) == HasRoot(p) = HasRoot(q) /\ Components(p) = Components(q)

\* the value a key has in the config file found: None when the file could
\* not be opened or the object lacks the key
FileValue(r, k) == IF r.file[1].open /\ r.file[1].json THEN r.file[1].fields[k] ELSE None

\* the value of the environment variable that the run read
EnvRead(r, name) == r.env[name][1]

\* C1 as stated: the CLI flag value if the flag was given, otherwise the
\* config-file value, otherwise the environment variable
ClaimedValue(cli, file, env) ==
    IF IsSome(cli) THEN cli
    ELSE IF IsSome(file) THEN file
    ELSE env

\* the same with an empty value read as "not given"
NonEmpty(o) == IsSome(o) /\ o[1] # ""

ClaimedValueSkippingEmpty(cli, file, env) ==
    IF NonEmpty(cli) THEN cli
    ELSE IF NonEmpty(file) THEN file
    ELSE env

\* the result of std::env::var when the run read the variable
EnvOf(r, name) == IF IsSome(r.env[name]) THEN EnvRead(r, name) ELSE None

\* C1 (as stated): whenever a credential is resolved, it is the CLI flag
\* value if the flag was given, otherwise the config-file value, otherwise
\* the environment variable, for every present/absent/empty combination
\* (an empty value read either as a value or as "not given").
C1_CliFileEnvForEveryValue ==
    /\ IsSome(run.account) =>
          \/ run.account = ClaimedValue(run.args.storage_account,
                                        FileValue(run, "storage_account"),
                                        EnvOf(run, "STORAGE_ACCOUNT"))
          \/ run.account = ClaimedValueSkippingEmpty(run.args.storage_account,
                                                     FileValue(run, "storage_account"),
                                                     EnvOf(run, "STORAGE_ACCOUNT"))
    /\ IsSome(run.master_key) =>
          \/ run.master_key = ClaimedValue(run.args.storage_master_key,
                                           FileValue(run, "storage_master_key"),
                                           EnvOf(run, "STORAGE_MASTER_KEY"))
          \/ run.master_key = ClaimedValueSkippingEmpty(run.args.storage_master_key,
                                                        FileValue(run, "storage_master_key"),
                                                        EnvOf(run, "STORAGE_MASTER_KEY"))

\* the value merged from CLI flag and config file: the flag if given,
\* otherwise the file's value, otherwise empty
Merged(cli, file) ==
    IF IsSome(cli) THEN cli[1]
    ELSE IF IsSome(file) THEN file[1]
    ELSE ""

\* C1 (amended): whenever a credential is resolved, it is the merged value
\* (CLI flag if given, otherwise the config-file value) when that value is
\* not empty, and otherwise the value of the environment variable; an empty
\* flag or file value counts as unset.  Each field is decided by its own
\* three sources only.
C1_Resolution ==
    /\ IsSome(run.account) =>
          LET m == Merged(run.args.storage_account, FileValue(run, "storage_account"))
          IN  IF m # "" THEN run.account = Some(m) /\ run.env.STORAGE_ACCOUNT = None
              ELSE IsSome(run.env.STORAGE_ACCOUNT)
                   /\ run.account = EnvRead(run, "STORAGE_ACCOUNT")
    /\ IsSome(run.master_key) =>
          LET m == Merged(run.args.storage_master_key, FileValue(run, "storage_master_key"))
          IN  IF m # "" THEN run.master_key = Some(m) /\ run.env.STORAGE_MASTER_KEY = None
              ELSE IsSome(run.env.STORAGE_MASTER_KEY)
                   /\ run.master_key = EnvRead(run, "STORAGE_MASTER_KEY")

\* C1 witness: file storage_account = "A" with -a B resolves to B, while the
\* key comes from the environment under an empty -k
C1_Witness ==
    /\ run.account = Some("B")
    /\ FileValue(run, "storage_account") = Some("A")
    /\ run.args.storage_master_key = Some("")
    /\ run.master_key = Some("E")

\* a credential is still empty after the merge and its variable is unset
MissingAccount(r) == r.env.STORAGE_ACCOUNT = Some(None)

MissingMasterKey(r) == r.env.STORAGE_MASTER_KEY = Some(None)

\* C2: when a credential is empty after the merge and its environment
\* variable is unset, the run has ended in the fatal error that names the
\* variable; no client was built, no handler dispatched, no remote call made.
C2_MissingCredentialIsFatal ==
    (MissingAccount(run) \/ MissingMasterKey(run)) =>
        /\ Finished(run)
        /\ run.result = "panic"
        /\ run.error = IF MissingAccount(run) THEN "STORAGE_ACCOUNT is not defined"
                       ELSE "STORAGE_MASTER_KEY is not defined"
        /\ run.storage_client = None
        /\ ~Has(run.out, "request")
        /\ run.calls = <<>>
        /\ run.io = <<>>

\* C2 witness: a get whose key is missing (empty -k, unset variable) after
\* the account was resolved
C2_Witness ==
    /\ run.args.mode = "get"
    /\ IsSome(run.account)
    /\ MissingMasterKey(run)
    /\ run.error = "STORAGE_MASTER_KEY is not defined"

\* the handler of r was entered without an argument its mode requires, or
\* with a mode that is none of the six
ArgumentError(r) ==
    /\ IsSome(r.storage_client)
    /\ LET m == r.args.mode
       IN  \/ m \in {"put-append", "delete"} /\ (r.args.container = None \/ r.args.blob = None)
           \/ m = "get" /\ (r.args.container = None \/ r.args.blob = None \/ r.local = None)
           \/ m \in {"put", "append"} /\ (r.local = None \/ r.args.container = None)
           \/ m \notin {"list", "get", "put", "append", "put-append", "delete"}

\* C3: a run with a missing required argument or an invalid mode makes no
\* remote call, opens or creates no local file, and ends in an error
\* ("Invalid mode" for an unknown mode).
C3_ArgumentErrorsStayLocal ==
    ArgumentError(run) =>
        /\ run.calls = <<>>
        /\ run.io = <<>>
        /\ run.fs = None
        /\ run.pc \in {"azure_storage", "put_append", "put", "get", "delete", "done"}
        /\ Finished(run) =>
              /\ run.result = "err"
              /\ run.error \in {"No container name specified", "No blob name specified",
                                "No local path specified", "Invalid mode"}
              /\ (run.args.mode = "bogus") = (run.error = "Invalid mode")

\* C3 witness: put-append without --blob has failed
C3_Witness ==
    /\ run.args.mode = "put-append"
    /\ run.args.blob = None
    /\ IsSome(run.args.container)
    /\ Finished(run)
    /\ run.error = "No blob name specified"

\* a get with container, blob and local path given, past its checks
GetChecked(r) == r.args.mode = "get" /\ IsSome(r.local_path)

\* the local path of a get was an existing directory when it was examined
WasDir(r) == r.fs0[1][r.local[1]].kind = "dir"

\* the io entries that create a file are all on path p
OnlyCreates(r, p) == \A i \in DOMAIN r.io : r.io[i].op = "create" => r.io[i].path = p

BaseName(p) ==
    IF p = ReportCsv THEN Some(<<"report.csv">>)
    ELSE IF p \in {<<"d">>, <<"d", "/">>} THEN Some(<<"d">>)
    ELSE None

\* put or append, past the argument checks on local path and container
PutArgsGiven(r) ==
    r.args.mode \in {"put", "append"} /\ IsSome(r.local) /\ IsSome(r.args.container)

\* C5: put and append address the --blob value when given and the base name
\* of the local path otherwise; without --blob and without a base name the
\* run fails before any local read or remote call.
C5_BlobNameResolution ==
    (PutArgsGiven(run) /\ run.pc \notin {"azure_storage", "put"}) =>
        LET want == IF IsSome(run.args.blob) THEN run.args.blob ELSE BaseName(run.local[1])
        IN  IF want = None
            THEN /\ Finished(run)
                 /\ run.error = "Cannot extract filename from local path"
                 /\ run.io = <<>>
                 /\ run.calls = <<>>
            ELSE /\ run.blob = want
                 /\ \A i \in DOMAIN run.calls : run.calls[i].blob = want

\* C5 witness: an append with no --blob and --local /tmp/data/report.csv
\* has called the service for report.csv
C5_Witness ==
    /\ run.args.mode = "append"
    /\ run.args.blob = None
    /\ run.local = Some(ReportCsv)
    /\ Len(run.calls) = 1
    /\ run.calls[1].blob = Some(<<"report.csv">>)

\* C6: the one call of put (block-blob upload) or append (append-block)
\* carries the whole content of the local file and the hash of exactly that
\* payload; put never appends and append never uploads a block blob.
C6_PayloadAndChecksum ==
    (run.args.mode \in {"put", "append"}) =>
        /\ Len(run.calls) <= 1
        /\ \A i \in DOMAIN run.calls :
              LET c == run.calls[i]
              IN  /\ c.op = IF run.args.mode = "put" THEN "put_block_blob" ELSE "append_block"
                  /\ c.body = Some(run.fs0[1][run.local[1]].data)
                  /\ IsSome(c.hash)
                  /\ md5_compute(c.body[1]) = c.hash[1]

\* C6 witness: a put has uploaded the one-byte content of the local file
C6_Witness ==
    /\ run.args.mode = "put"
    /\ Len(run.calls) = 1
    /\ run.calls[1].body = Some(<<1>>)
    /\ run.calls[1].ok

\* C7: a config file that exists and is well-formed JSON loads whatever
\* fields it omits, each omitted field being the empty string.
C7_OmittedFieldsDefault ==
    (IsSome(run.file) /\ run.file[1].open /\ run.file[1].json) =>
        /\ run.error # "config parse error"
        /\ run.pc = "overwrite" =>
              \A k \in DOMAIN run.file[1].fields :
                  run.cfg[k] = IF IsSome(run.file[1].fields[k])
                               THEN run.file[1].fields[k][1] ELSE Default[k]

\* C8 (as stated): with --debug every finished run has printed the resolved
\* configuration, the resolved request and the remote result, the runs that
\* fail on a missing credential, an argument error, a local I/O error or a
\* failed remote call included.
C8_DebugPrintsAllThree ==
    (Finished(run) /\ run.args.debug /\ run.error # "config parse error") =>
        Has(run.out, "cfg") /\ Has(run.out, "request") /\ Has(run.out, "res")

\* C8 (amended): with --debug a finished run has printed the configuration
\* exactly when the config file was loaded or absent (no parse error), the
\* request exactly when both credentials were resolved, and the remote
\* result exactly when the run succeeded; without --debug none of the three.
C8_DebugPrints ==
    Finished(run) =>
        IF run.args.debug
        THEN /\ Has(run.out, "cfg") = (run.error # "config parse error")
             /\ Has(run.out, "request") = IsSome(run.storage_client)
             /\ Has(run.out, "res") = (run.result = "ok")
        ELSE ~Has(run.out, "cfg") /\ ~Has(run.out, "request") /\ ~Has(run.out, "res")

\* C8 witness: a --debug run whose remote call failed printed configuration
\* and request but no result
C8_Witness ==
    /\ Finished(run)
    /\ run.args.debug
    /\ Len(run.calls) = 1
    /\ ~run.calls[1].ok
    /\ Has(run.out, "cfg")
    /\ Has(run.out, "request")
    /\ ~Has(run.out, "res")

\* what a run does apart from printing
Observable(r) ==
    [ pc |-> r.pc, calls |-> r.calls, io |-> r.io, fs |-> r.fs,
      result |-> r.result, error |-> r.error ]

\* C9: two runs that differ only in --debug make the same remote calls,
\* the same local file accesses with the same contents, and end alike.
C9_DebugIsInert ==
    /\ twin.args = [ run.args EXCEPT !.debug = ~run.args.debug ]
    /\ Observable(twin) = Observable(run)

\* C9 witness: a --debug get into a directory has finished, having printed
\* the complemented path, next to its twin without --debug
C9_Witness ==
    /\ run.args.debug
    /\ run.args.mode = "get"
    /\ run.result = "ok"
    /\ Has(run.out, "local path (complemented)")
    /\ twin.out = <<>>
    /\ Finished(twin)

\* the run reached a handler and met its preconditions
PreconditionsMet(r) ==
    /\ IsSome(r.storage_client)
    /\ ~ArgumentError(r)
    /\ r.error # "Cannot extract filename from local path"
    /\ r.args.mode \in {"put", "append"} => Has(r.io, [ op |-> "open", path |-> r.local[1], ok |-> TRUE ])

\* C10: never more than one remote call in a run, and exactly one in a
\* finished run that met its handler's preconditions; a failed call ends
\* the run in failure at once, with no local file created or changed; a
\* file is created only after a successful download; an unreadable local
\* file means no remote call.
C10_OneRemoteCall ==
    /\ Len(run.calls) <= 1
    /\ (Finished(run) /\ PreconditionsMet(run)) => Len(run.calls) = 1
    /\ (Len(run.calls) = 1 /\ ~run.calls[1].ok) =>
          /\ Finished(run)
          /\ run.result = "err"
          /\ run.fs = run.fs0
          /\ \A i \in DOMAIN run.io : run.io[i].op # "create"
    /\ (\E i \in DOMAIN run.io : run.io[i].op = "create") =>
          /\ Len(run.calls) = 1
          /\ run.calls[1].op = "get"
          /\ run.calls[1].ok
    /\ (\E i \in DOMAIN run.io : run.io[i].op = "open" /\ ~run.io[i].ok) =>
          run.calls = <<>> /\ run.result = "err"

\* C10 witness: a get whose download failed; the destination file is as it was
C10_Witness ==
    /\ GetChecked(run)
    /\ Len(run.calls) = 1
    /\ ~run.calls[1].ok
    /\ run.fs0[1][run.local_path[1]] = [ kind |-> "file", data |-> <<1>> ]
    /\ run.fs[1][run.local_path[1]] = [ kind |-> "file", data |-> <<1>> ]

====
